---- MODULE Spec2Model ----
(***************************************************************************)
(* Model of the Nervos CKB Ledger client (src/src/index.ts): the path      *)
(* encoder, the six public operations of class Ckb and the message         *)
(* chunking of signMessage, run against a transport whose send() either    *)
(* resolves with response bytes or rejects.                                *)
(*                                                                         *)
(* Bytes are integers 0..255, a Buffer is a sequence of bytes, and a text  *)
(* (hex text, a path) is a sequence of one-character strings or tokens.    *)
(* A value that may be thrown instead of returned is a record              *)
(* [threw, error, value].                                                  *)
(*                                                                         *)
(* Three specifications share the operations:                              *)
(*   Spec     one operation at a time, over the full input sets;           *)
(*   SpecSeq  one operation at a time over small input sets, with the      *)
(*            history kept: the replies an operation dropped and the       *)
(*            operation that settled before it;                            *)
(*   SpecTwo  two signMessage calls in flight on the one transport.        *)
(***************************************************************************)
EXTENDS Integers, Sequences, FiniteSets, TLC

\* ------------------------------------------------------------------ bounds
\* Paths of every segment count 0..MaxSegs are tried, next to the counts at
\* the edges of the one-byte length field.
MaxSegs == 5
\* Messages of up to MaxMsgLen bytes (before the magic prefix) are tried.
MaxMsgLen == 500
\* Device replies of every length 0..MaxSmallResp are tried, next to the
\* lengths around the fixed layouts (32, 65).
MaxSmallResp == 8

\* ------------------------------------------------------- program constants
maxApduSize == 230
SignatureLength == 65
WalletIdLength == 32
CompressedKeyLength == 33
StatusTrailerLength == 3
LockArgLength == 20
BECH32_LIMIT == 1023
\* Buffer.writeUInt8 accepts 0..UInt8Max, Buffer.writeInt8 -128..Int8Max.
UInt8Max == 255
Int8Max == 127
\* A 32-bit path segment is kept as its two 16-bit halves [hi, lo] (value
\* hi * 65536 + lo); bip32-path's hardened marker adds 2^31, that is
\* HardenedHi to the upper half.
HalfWord == 2^16
HardenedHi == 2^15

\* --------------------------------------------------------------- exceptions
Throw(e) == [threw |-> TRUE, error |-> e, value |-> <<>>]
Return(v) == [threw |-> FALSE, error |-> "", value |-> v]

\* ------------------------------------------------------------ Buffer helpers
Min(a, b) == IF a < b THEN a ELSE b
Max(a, b) == IF a > b THEN a ELSE b

\* Node's adjustOffset: a negative offset counts from the end, and the result
\* is clamped to 0..length.
AdjustOffset(offset, length) ==
  IF offset < 0 THEN Max(offset + length, 0) ELSE Min(offset, length)

\* buf.slice(start, end) / buf.subarray(start, end), offsets counted from 0.
Slice(buf, start, end) ==
  LET s == AdjustOffset(start, Len(buf))
      e == AdjustOffset(end, Len(buf))
  IN IF e > s THEN SubSeq(buf, s + 1, e) ELSE <<>>

\* Mutant of UInt32BE: the bytes stored least significant first.
UInt32BE_littleEndian(v) ==
  << v.lo % 256, v.lo \div 256, v.hi % 256, v.hi \div 256 >>

\* The four bytes writeUInt32BE stores, most significant first.
UInt32BE(v) ==
  << v.hi \div 256, v.hi % 256, v.lo \div 256, v.lo % 256 >>

\* writeUInt32BE throws ERR_OUT_OF_RANGE outside 0..2^32-1.
InRangeUInt32(v) == v.hi >= 0 /\ v.hi < HalfWord /\ v.lo >= 0 /\ v.lo < HalfWord

\* bipPath.forEach((segment, index) => data.writeUInt32BE(segment, off + index*4))
WriteSegments(segs) ==
  [k \in 1..(4 * Len(segs)) |-> UInt32BE(segs[(k + 3) \div 4])[((k - 1) % 4) + 1]]

\* writeUInt8 / writeInt8 throw ERR_OUT_OF_RANGE outside their range.
InRangeUInt8(v) == v >= 0 /\ v <= UInt8Max
InRangeInt8(v) == v >= -(Int8Max + 1) /\ v <= Int8Max
\* The byte writeInt8 stores: the two's complement of the value.
Int8Byte(v) == (v + 256) % 256

HexDigits ==
  << "0", "1", "2", "3", "4", "5", "6", "7",
     "8", "9", "a", "b", "c", "d", "e", "f" >>

\* buf.toString("hex"): two lowercase hex digits per byte.
ToHex(buf) ==
  [k \in 1..(2 * Len(buf)) |->
     LET b == buf[(k + 1) \div 2]
     IN IF k % 2 = 1 THEN HexDigits[(b \div 16) + 1] ELSE HexDigits[(b % 16) + 1]]

\* The value of each hex digit, upper or lower case.
HexTable ==
  [c \in {"0", "1", "2", "3", "4", "5", "6", "7", "8", "9",
          "a", "b", "c", "d", "e", "f", "A", "B", "C", "D", "E", "F"} |->
     CASE c = "0" -> 0 [] c = "1" -> 1 [] c = "2" -> 2 [] c = "3" -> 3
       [] c = "4" -> 4 [] c = "5" -> 5 [] c = "6" -> 6 [] c = "7" -> 7
       [] c = "8" -> 8 [] c = "9" -> 9
       [] c \in {"a", "A"} -> 10 [] c \in {"b", "B"} -> 11
       [] c \in {"c", "C"} -> 12 [] c \in {"d", "D"} -> 13
       [] c \in {"e", "E"} -> 14 [] c \in {"f", "F"} -> 15]

IsHexDigit(c) == c \in DOMAIN HexTable

\* Buffer.from(text, "hex"): whole digit pairs are decoded from the left, and
\* decoding stops at the first pair that is not two hex digits; an odd last
\* character is dropped. HexPairs is the number of pairs decoded.
HexPairs(text) ==
  LET n == Len(text) \div 2
      bad == {k \in 1..n : ~IsHexDigit(text[2 * k - 1]) \/ ~IsHexDigit(text[2 * k])}
  IN IF bad = {} THEN n ELSE (CHOOSE k \in bad : \A j \in bad : k <= j) - 1

FromHex(text) ==
  [k \in 1..HexPairs(text) |->
     16 * HexTable[text[2 * k - 1]] + HexTable[text[2 * k]]]

\* Buffer.from("Nervos Message:")
magicBytes ==
  << 78, 101, 114, 118, 111, 115, 32, 77, 101, 115, 115, 97, 103, 101, 58 >>

\* ------------------------------------------------------------ path encoder
\* A path text is the sequence of its "/"-separated tokens; a token is
\* [digits, mark]: its decimal child index (-1 when the token holds no
\* digits, as the empty token does) and its hardened marker ("'" or "").

\* BIPPath.fromString(path).toPathArray(): one 32-bit segment per token.
BIPPath_fromString(path) ==
  IF \E k \in 1..Len(path) : path[k].digits < 0
  THEN Throw("Invalid input")
  ELSE Return([k \in 1..Len(path) |->
         [hi |-> (path[k].digits \div HalfWord)
                   + (IF path[k].mark = "'" THEN HardenedHi ELSE 0),
          lo |-> path[k].digits % HalfWord]])

\* The range checks of data.writeUInt32BE(segment, ...) over the whole array.
SegmentsInRange(segs) == \A k \in 1..Len(segs) : InRangeUInt32(segs[k])

\* Mutant of pathToBuffer: the segment count is stored without writeUInt8's
\* range check, so it wraps.
pathToBuffer_unchecked(path) ==
  LET bipPath == BIPPath_fromString(path)
  IN IF bipPath.threw THEN bipPath
     ELSE Return(<<Len(bipPath.value) % 256>> \o WriteSegments(bipPath.value))

pathToBuffer(path) ==
  LET bipPath == BIPPath_fromString(path)
  IN IF bipPath.threw THEN bipPath
     ELSE IF ~InRangeUInt8(Len(bipPath.value)) THEN Throw("ERR_OUT_OF_RANGE")
     ELSE IF ~SegmentsInRange(bipPath.value) THEN Throw("ERR_OUT_OF_RANGE")
     ELSE Return(<<Len(bipPath.value)>> \o WriteSegments(bipPath.value))

\* getWalletExtendedPublicKey builds its payload inline (lines 117-128).
extendedKeyData(path) ==
  LET bipPath == BIPPath_fromString(path)
  IN IF bipPath.threw THEN bipPath
     ELSE IF ~InRangeUInt8(Len(bipPath.value)) THEN Throw("ERR_OUT_OF_RANGE")
     ELSE IF ~SegmentsInRange(bipPath.value) THEN Throw("ERR_OUT_OF_RANGE")
     ELSE Return(<<Len(bipPath.value)>> \o WriteSegments(bipPath.value))

\* signMessage's Init payload: the display flag and the segment count are
\* written with writeInt8, then the segments.
rawPath(path, displayHex) ==
  LET bipPath == BIPPath_fromString(path)
  IN IF bipPath.threw THEN bipPath
     ELSE IF ~InRangeInt8(Len(bipPath.value)) THEN Throw("ERR_OUT_OF_RANGE")
     ELSE IF ~SegmentsInRange(bipPath.value) THEN Throw("ERR_OUT_OF_RANGE")
     ELSE Return(<<Int8Byte(IF displayHex THEN 1 ELSE 0),
                   Int8Byte(Len(bipPath.value))>>
                 \o WriteSegments(bipPath.value))

\* ------------------------------------------------------------ message chunking
\* Mutant of rawMsgOf: the message goes out without the magic prefix.
rawMsgOf_noPrefix(rawMsgHex) == FromHex(rawMsgHex)

\* const rawMsg = Buffer.concat([magicBytes, Buffer.from(rawMsgHex, "hex")])
rawMsgOf(rawMsgHex) == magicBytes \o FromHex(rawMsgHex)

\* Mutant of txFullChunks: Math.ceil in place of Math.floor.
txFullChunks_ceil(msg) == (Len(msg) + maxApduSize - 1) \div maxApduSize

txFullChunks(msg) == Len(msg) \div maxApduSize

\* Mutant of chunkData: the slice ends one byte early.
chunkData_short(msg, k) == Slice(msg, k * maxApduSize, (k + 1) * maxApduSize - 1)

\* The k-th continue frame's payload (k counted from 0).
chunkData(msg, k) == Slice(msg, k * maxApduSize, (k + 1) * maxApduSize)

\* Mutant of lastOffset: the offset of the last chunk that holds bytes.
lastOffset_nonEmpty(msg) == ((Len(msg) - 1) \div maxApduSize) * maxApduSize

lastOffset(msg) == (Len(msg) \div maxApduSize) * maxApduSize

lastData(msg) == Slice(msg, lastOffset(msg), lastOffset(msg) + maxApduSize)

\* ------------------------------------------------------------------- inputs
\* Path texts: "44'/144'/0'/0/0" continued (pattern 0), and large child
\* indices with alternating hardened markers (pattern 1).
PathToken(k, pattern) ==
  IF pattern = 0
  THEN [digits |-> IF k = 1 THEN 44 ELSE IF k = 2 THEN 144 ELSE IF k <= 5 THEN 0 ELSE k,
        mark |-> IF k <= 3 THEN "'" ELSE ""]
  ELSE [digits |-> 2147483647 - k * 65537,
        mark |-> IF k % 2 = 1 THEN "'" ELSE ""]

PathOf(n, pattern) == [k \in 1..n |-> PathToken(k, pattern)]

EmptyToken == [digits |-> -1, mark |-> ""]

\* Segment counts at the edges of writeInt8 and writeUInt8.
EdgeSegCounts == {Int8Max, Int8Max + 1, UInt8Max, UInt8Max + 1}

Paths ==
  {PathOf(n, pattern) : n \in 0..MaxSegs, pattern \in {0, 1}}
    \cup {PathOf(n, 1) : n \in EdgeSegCounts}
    \cup {<<EmptyToken>>, <<PathToken(1, 0), EmptyToken, PathToken(3, 0)>>}

\* Message bytes: a pattern whose period (256) is not the frame size.
MsgBytes(n) == [k \in 1..n |-> (k * 7 + 3) % 256]

\* Message lengths: the short ones, the ones that bring the prefixed message
\* to one byte below, onto and one byte above a multiple of the frame size,
\* and the longest.
MsgLens ==
  {n \in 0..MaxMsgLen :
     \/ n <= 1
     \/ n = MaxMsgLen
     \/ (n + Len(magicBytes)) % maxApduSize \in {maxApduSize - 1, 0, 1}}

\* Hex texts: well-formed ones, one with an odd last digit, one with a
\* character that is no hex digit, one in upper case.
MsgHexes ==
  {ToHex(MsgBytes(n)) : n \in MsgLens}
    \cup {<<"0", "a", "f">>, <<"1", "2", "z", "z", "3", "4">>, <<"A", "B", "c", "D">>}

\* Device replies: byte 0 is a, byte 1+a is b, the rest a fixed pattern. The
\* longest holds a 65-byte key, its length byte and a 3-byte chain code.
Reply(n, a, b) ==
  [k \in 1..n |-> IF k = 1 THEN a ELSE IF k = a + 2 THEN b ELSE (k * 11 + 5) % 256]

ReplyLens ==
  (0..MaxSmallResp)
    \cup {WalletIdLength - 1, WalletIdLength, WalletIdLength + 1,
          SignatureLength - 1, SignatureLength, SignatureLength + 1,
          SignatureLength + 2, 2 + SignatureLength + 3}

Replies == {Reply(n, a, 3) : n \in ReplyLens, a \in {2, SignatureLength}}

\* What a rejected send() throws.
TransportErrors == {"TransportStatusError", "DisconnectedDevice"}

\* -------------------------------------------------------------------- state
VARIABLES
  op,        \* the public operation in progress ("none" when idle)
  args,      \* its arguments
  pc,        \* where it stands: "idle", an await point, "done" or "failed"
  sent,      \* the frames handed to transport.send by this operation, in order
  inflight,  \* sends of this operation whose promise is still pending
  response,  \* what the awaited send resolved with, until the operation resumes
  rejected,  \* what a send of this operation rejected with ("" when none did)
  response1, \* getAppConfiguration's local response1
  rawMsg,    \* signMessage's local rawMsg: the prefixed message
  i,         \* signMessage's loop index
  result,    \* the value the operation's promise resolved with
  error,     \* the value the operation's promise rejected with ("" when none)
  transport, \* the client's only field: this.transport
  acks,      \* history: the replies the operation awaited and then dropped
  previous,  \* history: the operation the caller saw settle last
  runs,      \* two signMessage calls in flight on the one transport
  wire       \* the frames the transport was handed by those calls, in order

\* The variables of one call at a time, of the history of calls that follow
\* each other, and of two calls in flight together.
callVars ==
  << op, args, pc, sent, inflight, response, rejected, response1, rawMsg, i,
     result, error >>
seqVars == << acks, previous >>
twoVars == << runs, wire >>

vars == << callVars, transport, seqVars, twoVars >>

NoArgs == [path |-> <<>>, testnet |-> FALSE, rawMsgHex |-> <<>>, displayHex |-> FALSE]
NoResponse == [ready |-> FALSE, data |-> <<>>]
NoResult == [returned |-> FALSE]

Frame(ins, p1, data) == [cla |-> 128, ins |-> ins, p1 |-> p1, p2 |-> 0, data |-> data]

\* No operation has settled yet.
NoPrevious == [op |-> "none"]

\* The two calls made without awaiting each other, and a call not yet made.
Calls == {1, 2}
NoRun ==
  [pc |-> "idle", args |-> NoArgs, rawMsg |-> <<>>, i |-> 0,
   response |-> NoResponse, result |-> NoResult, error |-> ""]

Init ==
  /\ op = "none"
  /\ args = NoArgs
  /\ pc = "idle"
  /\ sent = <<>>
  /\ inflight = 0
  /\ response = NoResponse
  /\ rejected = ""
  /\ response1 = <<>>
  /\ rawMsg = <<>>
  /\ i = 0
  /\ result = NoResult
  /\ error = ""
  /\ transport = "transport"
  /\ acks = <<>>
  /\ previous = NoPrevious
  /\ runs = [c \in Calls |-> NoRun]
  /\ wire = <<>>

\* ------------------------------------------------------- steps of an operation
\* Mutant of send: a frame is handed to the transport twice (a retry).
send_twice(frame) ==
  /\ sent' = sent \o <<frame, frame>>
  /\ inflight' = inflight + 1
  /\ response' = NoResponse

\* await this.transport.send(...): the frame is handed to the transport and
\* the operation suspends on the promise.
send(frame) ==
  /\ sent' = Append(sent, frame)
  /\ inflight' = inflight + 1
  /\ response' = NoResponse

\* The operation stops with a thrown value: its promise rejects with it.
throw(e) ==
  /\ pc' = "failed"
  /\ error' = e
  /\ result' = NoResult

\* return v
return(v) ==
  /\ pc' = "done"
  /\ result' = [returned |-> TRUE] @@ v
  /\ error' = ""

\* Mutant of resumes: the await is missing, the operation runs on while its
\* send is pending.
resumes_noAwait(name, label) == op = name /\ pc = label

\* The operation resumes after the await at `label`.
resumes(name, label) == op = name /\ pc = label /\ response.ready

\* ---------------------------------------------------------------- transport
\* The pending send resolves with the device's reply.
TransportResolve(reply) ==
  /\ inflight > 0
  /\ ~response.ready
  /\ inflight' = inflight - 1
  /\ response' = [ready |-> TRUE, data |-> reply]
  /\ UNCHANGED << op, args, pc, sent, rejected, response1, rawMsg, i, result, error >>

\* Mutant of TransportReject: the rejection is caught and the operation goes
\* on as if the device had replied with nothing.
TransportReject_caught(e) ==
  /\ inflight > 0
  /\ ~response.ready
  /\ inflight' = inflight - 1
  /\ rejected' = e
  /\ response' = [ready |-> TRUE, data |-> <<>>]
  /\ UNCHANGED << op, args, pc, sent, response1, rawMsg, i, result, error >>

\* The pending send rejects: no operation catches, so the awaiting operation
\* rejects with the same value.
TransportReject(e) ==
  /\ inflight > 0
  /\ ~response.ready
  /\ inflight' = inflight - 1
  /\ rejected' = e
  /\ throw(e)
  /\ UNCHANGED << op, args, sent, response, response1, rawMsg, i >>

\* ------------------------------------------------------ getAppConfiguration
getAppConfiguration ==
  /\ pc = "idle"
  /\ op' = "getAppConfiguration"
  /\ send(Frame(0, 0, <<>>))
  /\ pc' = "config1"
  /\ UNCHANGED << args, rejected, response1, rawMsg, i, result, error >>

getAppConfiguration_second ==
  /\ resumes("getAppConfiguration", "config1")
  /\ response1' = response.data
  /\ send(Frame(9, 0, <<>>))
  /\ pc' = "config2"
  /\ UNCHANGED << op, args, rejected, rawMsg, i, result, error >>

\* "" + response1[k]: the decimal text of the byte, "undefined" past the end.
versionPart(buf, k) == IF k < Len(buf) THEN ToString(buf[k + 1]) ELSE "undefined"

\* buf.toString("latin1"): byte b becomes the character U+00b.
Latin1(buf) == [k \in 1..Len(buf) |-> [codePoint |-> buf[k]]]

\* Mutant of appConfiguration: only the two status bytes are dropped.
appConfiguration_dropsTwo(r1, r2) ==
  [version |-> versionPart(r1, 0) \o "." \o versionPart(r1, 1) \o "." \o versionPart(r1, 2),
   hash |-> Latin1(Slice(r2, 0, -2))]

appConfiguration(r1, r2) ==
  [version |-> versionPart(r1, 0) \o "." \o versionPart(r1, 1) \o "." \o versionPart(r1, 2),
   hash |-> Latin1(Slice(r2, 0, -StatusTrailerLength))]

getAppConfiguration_return ==
  /\ resumes("getAppConfiguration", "config2")
  /\ return(appConfiguration(response1, response.data))
  /\ UNCHANGED << op, args, sent, inflight, response, rejected, response1, rawMsg, i >>

\* -------------------------------------------------------------- getWalletId
\* Mutant of getWalletId: the id the last call returned is kept and returned
\* again without asking the device.
getWalletId_cached ==
  /\ pc = "idle"
  /\ op' = "getWalletId"
  /\ IF previous.op = "getWalletId" /\ previous.result.returned
     THEN /\ pc' = "done"
          /\ result' = previous.result
          /\ UNCHANGED << sent, inflight, response >>
     ELSE /\ send(Frame(1, 0, <<>>))
          /\ pc' = "walletId"
          /\ UNCHANGED result
  /\ UNCHANGED << args, rejected, response1, rawMsg, i, error >>

getWalletId ==
  /\ pc = "idle"
  /\ op' = "getWalletId"
  /\ send(Frame(1, 0, <<>>))
  /\ pc' = "walletId"
  /\ UNCHANGED << args, rejected, response1, rawMsg, i, result, error >>

\* Mutant of walletId: one byte too many is kept.
walletId_oneMore(reply) == ToHex(Slice(reply, 0, WalletIdLength + 1))

walletId(reply) == ToHex(Slice(reply, 0, WalletIdLength))

getWalletId_return ==
  /\ resumes("getWalletId", "walletId")
  /\ return([value |-> walletId(response.data)])
  /\ UNCHANGED << op, args, sent, inflight, response, rejected, response1, rawMsg, i >>

\* ------------------------------------------------------- getWalletPublicKey
getWalletPublicKey(path, testnet) ==
  /\ pc = "idle"
  /\ op' = "getWalletPublicKey"
  /\ args' = [NoArgs EXCEPT !.path = path, !.testnet = testnet]
  /\ LET pathBuf == pathToBuffer(path)
     IN IF pathBuf.threw
        THEN throw(pathBuf.error) /\ UNCHANGED << sent, inflight, response >>
        ELSE /\ send(Frame(2, 0, pathBuf.value))
             /\ pc' = "publicKey"
             /\ UNCHANGED << result, error >>
  /\ UNCHANGED << rejected, response1, rawMsg, i >>

\* response.slice(1, 1 + response[0]); response[0] of an empty reply is
\* undefined, the end offset NaN, and the slice empty.
publicKeyOf(reply) ==
  IF Len(reply) = 0 THEN <<>> ELSE Slice(reply, 1, 1 + reply[1])

\* publicKey[64] & 1 ? "03" : "02" (undefined & 1 is 0).
parityByte(publicKey) ==
  IF Len(publicKey) > 64 /\ publicKey[65] % 2 = 1 THEN 3 ELSE 2

\* Buffer.alloc(33) filled at 0 with the parity byte and at 1..32 with
\* publicKey.subarray(1, 33), which fill() repeats when it is shorter than 32
\* bytes; an empty one, where fill() does not throw, leaves the zeros.
compressedPublicKey(publicKey) ==
  LET x == Slice(publicKey, 1, CompressedKeyLength)
  IN [k \in 1..CompressedKeyLength |->
        IF k = 1 THEN parityByte(publicKey)
        ELSE IF Len(x) = 0 THEN 0
        ELSE x[((k - 2) % Len(x)) + 1]]

hashPersonalization ==
  << 99, 107, 98, 45, 100, 101, 102, 97, 117, 108, 116, 45, 104, 97, 115, 104 >>

\* Blake2b(32, null, null, personalization).update(input).digest("binary"):
\* the digest is kept as the term that names it (equal inputs, equal digests).
Blake2b(outlen, personal, input) ==
  [blake2b |-> outlen, personal |-> personal, input |-> input]

\* .subarray(0, 20) of the digest
lockArgOf(compressed) ==
  [first |-> LockArgLength, of |-> Blake2b(32, hashPersonalization, compressed)]

SECP256K1_BLAKE160 ==
  << 155, 215, 224, 111, 62, 207, 75, 224, 242, 252, 210, 24, 139, 35, 241, 185,
     252, 200, 142, 93, 75, 101, 168, 99, 123, 23, 114, 59, 189, 163, 204, 232 >>

\* Mutant of addressOf: every address is encoded for the live network.
addressOf_liveOnly(lockArg, testnet) ==
  [bech32m |-> "ckb",
   contents |-> [format |-> 0, codeHash |-> SECP256K1_BLAKE160, hashType |-> 1,
                 args |-> lockArg],
   limit |-> BECH32_LIMIT]

\* bech32m.encode(prefix, bech32m.toWords(addr_contents), BECH32_LIMIT), kept
\* as the term that names it.
addressOf(lockArg, testnet) ==
  [bech32m |-> IF testnet THEN "ckt" ELSE "ckb",
   contents |-> [format |-> 0, codeHash |-> SECP256K1_BLAKE160, hashType |-> 1,
                 args |-> lockArg],
   limit |-> BECH32_LIMIT]

walletPublicKey(reply, testnet) ==
  LET publicKey == publicKeyOf(reply)
      lockArg == lockArgOf(compressedPublicKey(publicKey))
  IN [publicKey |-> ToHex(publicKey),
      lockArg |-> [hex |-> lockArg],
      address |-> addressOf(lockArg, testnet)]

\* compressedPublicKey.fill(<empty buffer>, 1, 33): Node 10 and later and the
\* current browser Buffer throw; older ones leave the zeros of Buffer.alloc.
emptyFill(reply) == Len(Slice(publicKeyOf(reply), 1, CompressedKeyLength)) = 0

getWalletPublicKey_return ==
  /\ resumes("getWalletPublicKey", "publicKey")
  /\ \/ /\ emptyFill(response.data)
        /\ throw("ERR_INVALID_ARG_VALUE")
     \/ return(walletPublicKey(response.data, args.testnet))
  /\ UNCHANGED << op, args, sent, inflight, response, rejected, response1, rawMsg, i >>

\* ------------------------------------------------ getWalletExtendedPublicKey
getWalletExtendedPublicKey(path) ==
  /\ pc = "idle"
  /\ op' = "getWalletExtendedPublicKey"
  /\ args' = [NoArgs EXCEPT !.path = path]
  /\ LET data == extendedKeyData(path)
     IN IF data.threw
        THEN throw(data.error) /\ UNCHANGED << sent, inflight, response >>
        ELSE /\ send(Frame(4, 0, data.value))
             /\ pc' = "extendedKey"
             /\ UNCHANGED << result, error >>
  /\ UNCHANGED << rejected, response1, rawMsg, i >>

\* An index past the end reads undefined; an offset computed from undefined
\* is NaN, which slice() takes as 0, so the slice it ends is empty.
\* Mutant of extendedPublicKey: the chain code is read from its length byte on.
extendedPublicKey_fromLengthByte(reply) ==
  IF Len(reply) = 0
  THEN [public_key |-> ToHex(<<>>), chain_code |-> ToHex(<<>>)]
  ELSE LET publicKeyLength == reply[1]
           chainCodeOffset == 1 + publicKeyLength
       IN [public_key |-> ToHex(Slice(reply, 1, 1 + publicKeyLength)),
           chain_code |->
             IF 1 + publicKeyLength >= Len(reply)
             THEN ToHex(<<>>)
             ELSE ToHex(Slice(reply, chainCodeOffset,
                              chainCodeOffset + reply[2 + publicKeyLength]))]

extendedPublicKey(reply) ==
  IF Len(reply) = 0
  THEN [public_key |-> ToHex(<<>>), chain_code |-> ToHex(<<>>)]
  ELSE LET publicKeyLength == reply[1]
           chainCodeOffset == 2 + publicKeyLength
       IN [public_key |-> ToHex(Slice(reply, 1, 1 + publicKeyLength)),
           chain_code |->
             IF 1 + publicKeyLength >= Len(reply)
             THEN ToHex(<<>>)
             ELSE ToHex(Slice(reply, chainCodeOffset,
                              chainCodeOffset + reply[2 + publicKeyLength]))]

getWalletExtendedPublicKey_return ==
  /\ resumes("getWalletExtendedPublicKey", "extendedKey")
  /\ return(extendedPublicKey(response.data))
  /\ UNCHANGED << op, args, sent, inflight, response, rejected, response1, rawMsg, i >>

\* -------------------------------------------------------------- signMessage
signature(reply) == ToHex(Slice(reply, 0, SignatureLength))

signMessage(path, rawMsgHex, displayHex) ==
  /\ pc = "idle"
  /\ op' = "signMessage"
  /\ args' = [NoArgs EXCEPT !.path = path, !.rawMsgHex = rawMsgHex,
                            !.displayHex = displayHex]
  /\ LET data == rawPath(path, displayHex)
     IN IF data.threw
        THEN throw(data.error) /\ UNCHANGED << sent, inflight, response, rawMsg >>
        ELSE /\ rawMsg' = rawMsgOf(rawMsgHex)
             /\ send(Frame(6, 0, data.value))
             /\ pc' = "signInit"
             /\ UNCHANGED << result, error >>
  /\ UNCHANGED << rejected, response1, i >>

\* for (let i = 0; i < txFullChunks; i++) { send(chunk i) }, then the final
\* frame: `next` is the value of i the loop test sees.
signMessage_loop(next) ==
  /\ i' = next
  /\ IF next < txFullChunks(rawMsg)
     THEN /\ send(Frame(6, 1, chunkData(rawMsg, next)))
          /\ pc' = "signContinue"
     ELSE /\ send(Frame(6, 129, lastData(rawMsg)))
          /\ pc' = "signFinal"
  /\ UNCHANGED << op, args, rejected, response1, rawMsg, result, error >>

signMessage_afterInit ==
  /\ resumes("signMessage", "signInit")
  /\ signMessage_loop(0)

signMessage_afterChunk ==
  /\ resumes("signMessage", "signContinue")
  /\ signMessage_loop(i + 1)

\* Mutant of signMessage_return: the signature is read from the reply to the
\* Init frame.
signMessage_return_firstReply ==
  /\ resumes("signMessage", "signFinal")
  /\ return([value |-> signature(acks[1])])
  /\ UNCHANGED << op, args, sent, inflight, response, rejected, response1, rawMsg, i >>

signMessage_return ==
  /\ resumes("signMessage", "signFinal")
  /\ return([value |-> signature(response.data)])
  /\ UNCHANGED << op, args, sent, inflight, response, rejected, response1, rawMsg, i >>

\* ---------------------------------------------------------- signMessageHash
signMessageHash(path, rawMsgHex) ==
  /\ pc = "idle"
  /\ op' = "signMessageHash"
  /\ args' = [NoArgs EXCEPT !.path = path, !.rawMsgHex = rawMsgHex]
  /\ LET pathBuf == pathToBuffer(path)
     IN IF pathBuf.threw
        THEN throw(pathBuf.error) /\ UNCHANGED << sent, inflight, response >>
        ELSE /\ send(Frame(7, 0, pathBuf.value))
             /\ pc' = "hashInit"
             /\ UNCHANGED << result, error >>
  /\ UNCHANGED << rejected, response1, rawMsg, i >>

\* Mutant of signMessageHash_final: the digest is cut to one APDU's worth, as
\* signMessage cuts its message.
signMessageHash_final_chunked ==
  /\ resumes("signMessageHash", "hashInit")
  /\ send(Frame(7, 128, Slice(FromHex(args.rawMsgHex), 0, maxApduSize)))
  /\ pc' = "hashFinal"
  /\ UNCHANGED << op, args, rejected, response1, rawMsg, i, result, error >>

signMessageHash_final ==
  /\ resumes("signMessageHash", "hashInit")
  /\ send(Frame(7, 128, FromHex(args.rawMsgHex)))
  /\ pc' = "hashFinal"
  /\ UNCHANGED << op, args, rejected, response1, rawMsg, i, result, error >>

signMessageHash_return ==
  /\ resumes("signMessageHash", "hashFinal")
  /\ return([value |-> signature(response.data)])
  /\ UNCHANGED << op, args, sent, inflight, response, rejected, response1, rawMsg, i >>

\* ------------------------------------------------------------------- caller
\* The caller has the outcome; the client object holds nothing of the
\* operation, and the next operation starts from the constructed state.
Settled ==
  /\ pc \in {"done", "failed"}
  /\ op' = "none"
  /\ args' = NoArgs
  /\ pc' = "idle"
  /\ sent' = <<>>
  /\ inflight' = 0
  /\ response' = NoResponse
  /\ rejected' = ""
  /\ response1' = <<>>
  /\ rawMsg' = <<>>
  /\ i' = 0
  /\ result' = NoResult
  /\ error' = ""

\* Digests for signMessageHash: a 32-byte one and the short hex texts.
DigestHexes ==
  {ToHex(MsgBytes(WalletIdLength)), <<"0", "a", "f">>, <<>>}

Next ==
  \/ /\ getAppConfiguration
     /\ UNCHANGED << transport, seqVars, twoVars >>
  \/ /\ getAppConfiguration_second
     /\ UNCHANGED << transport, seqVars, twoVars >>
  \/ /\ getAppConfiguration_return
     /\ UNCHANGED << transport, seqVars, twoVars >>
  \/ /\ getWalletId
     /\ UNCHANGED << transport, seqVars, twoVars >>
  \/ /\ getWalletId_return
     /\ UNCHANGED << transport, seqVars, twoVars >>
  \/ /\ \E path \in Paths, testnet \in BOOLEAN : getWalletPublicKey(path, testnet)
     /\ UNCHANGED << transport, seqVars, twoVars >>
  \/ /\ getWalletPublicKey_return
     /\ UNCHANGED << transport, seqVars, twoVars >>
  \/ /\ \E path \in Paths : getWalletExtendedPublicKey(path)
     /\ UNCHANGED << transport, seqVars, twoVars >>
  \/ /\ getWalletExtendedPublicKey_return
     /\ UNCHANGED << transport, seqVars, twoVars >>
  \/ /\ \E path \in Paths, rawMsgHex \in MsgHexes, displayHex \in BOOLEAN :
          signMessage(path, rawMsgHex, displayHex)
     /\ UNCHANGED << transport, seqVars, twoVars >>
  \/ /\ signMessage_afterInit
     /\ UNCHANGED << transport, seqVars, twoVars >>
  \/ /\ signMessage_afterChunk
     /\ UNCHANGED << transport, seqVars, twoVars >>
  \/ /\ signMessage_return
     /\ UNCHANGED << transport, seqVars, twoVars >>
  \/ /\ \E path \in Paths, rawMsgHex \in DigestHexes : signMessageHash(path, rawMsgHex)
     /\ UNCHANGED << transport, seqVars, twoVars >>
  \/ /\ signMessageHash_final
     /\ UNCHANGED << transport, seqVars, twoVars >>
  \/ /\ signMessageHash_return
     /\ UNCHANGED << transport, seqVars, twoVars >>
  \/ /\ \E reply \in Replies : TransportResolve(reply)
     /\ UNCHANGED << transport, seqVars, twoVars >>
  \/ /\ \E e \in TransportErrors : TransportReject(e)
     /\ UNCHANGED << transport, seqVars, twoVars >>
  \/ /\ Settled
     /\ UNCHANGED << transport, seqVars, twoVars >>

Spec == Init /\ [][Next]_vars

\* ------------------------------------------------- operations one after another
\* The same operations, with the history kept: every reply an operation
\* awaited without binding it, and the whole of the operation that settled
\* before the one in progress.
SeqPaths == {PathOf(2, 0), <<EmptyToken>>}
SeqMsgHexes == {ToHex(MsgBytes(0)), ToHex(MsgBytes(maxApduSize - Len(magicBytes)))}
SeqDigestHexes == {ToHex(MsgBytes(WalletIdLength)), ToHex(MsgBytes(maxApduSize + 1))}
SeqReplies ==
  {Reply(SignatureLength + 1, SignatureLength, 3),
   Reply(SignatureLength + 2, SignatureLength, 3),
   Reply(SignatureLength + 2, 2, 3)}

\* The operation resumes and lets go of the reply it awaited.
dropsReply == acks' = Append(acks, response.data)

\* What the caller, and nothing in the client, knows of a settled operation.
Outcome ==
  [op |-> op, args |-> args, sent |-> sent, acks |-> acks,
   response1 |-> response1, response |-> response.data,
   rejected |-> rejected, result |-> result, error |-> error,
   after |-> previous.op]

NextSeq ==
  \/ /\ getAppConfiguration
     /\ UNCHANGED << transport, seqVars, twoVars >>
  \/ /\ getAppConfiguration_second
     /\ UNCHANGED << transport, seqVars, twoVars >>
  \/ /\ getAppConfiguration_return
     /\ UNCHANGED << transport, seqVars, twoVars >>
  \/ /\ getWalletId
     /\ UNCHANGED << transport, seqVars, twoVars >>
  \/ /\ getWalletId_return
     /\ UNCHANGED << transport, seqVars, twoVars >>
  \/ /\ \E path \in SeqPaths, testnet \in BOOLEAN : getWalletPublicKey(path, testnet)
     /\ UNCHANGED << transport, seqVars, twoVars >>
  \/ /\ getWalletPublicKey_return
     /\ UNCHANGED << transport, seqVars, twoVars >>
  \/ /\ \E path \in SeqPaths : getWalletExtendedPublicKey(path)
     /\ UNCHANGED << transport, seqVars, twoVars >>
  \/ /\ getWalletExtendedPublicKey_return
     /\ UNCHANGED << transport, seqVars, twoVars >>
  \/ /\ \E path \in SeqPaths, rawMsgHex \in SeqMsgHexes :
          signMessage(path, rawMsgHex, FALSE)
     /\ UNCHANGED << transport, seqVars, twoVars >>
  \/ /\ signMessage_afterInit
     /\ dropsReply
     /\ UNCHANGED << transport, previous, twoVars >>
  \/ /\ signMessage_afterChunk
     /\ dropsReply
     /\ UNCHANGED << transport, previous, twoVars >>
  \/ /\ signMessage_return
     /\ UNCHANGED << transport, seqVars, twoVars >>
  \/ /\ \E path \in SeqPaths, rawMsgHex \in SeqDigestHexes :
          signMessageHash(path, rawMsgHex)
     /\ UNCHANGED << transport, seqVars, twoVars >>
  \/ /\ signMessageHash_final
     /\ dropsReply
     /\ UNCHANGED << transport, previous, twoVars >>
  \/ /\ signMessageHash_return
     /\ UNCHANGED << transport, seqVars, twoVars >>
  \/ /\ \E reply \in SeqReplies : TransportResolve(reply)
     /\ UNCHANGED << transport, seqVars, twoVars >>
  \/ /\ TransportReject("TransportStatusError")
     /\ UNCHANGED << transport, seqVars, twoVars >>
  \/ /\ Settled
     /\ previous' = Outcome
     /\ acks' = <<>>
     /\ UNCHANGED << transport, twoVars >>

SpecSeq == Init /\ [][NextSeq]_vars

\* ------------------------------------------------- two signMessage calls at once
\* The caller makes two signMessage calls without awaiting the first. Each
\* call has its own locals; both hand their frames to the one transport.
TwoPaths == {PathOf(2, 0), <<EmptyToken>>}
TwoMsgHexes == {ToHex(MsgBytes(0)), ToHex(MsgBytes(maxApduSize - Len(magicBytes)))}
TwoReplies == {Reply(SignatureLength + 1, SignatureLength, 3), Reply(2, 2, 3)}

\* Mutant of decorated: signMessage is in the list the constructor hands to
\* decorateAppAPIMethods.
decorated_signMessageToo(name) ==
  name \in {"getAppConfiguration", "getWalletId", "getWalletPublicKey",
            "signAnnotatedTransaction", "signMessage"}

\* The methods the constructor hands to transport.decorateAppAPIMethods, which
\* makes each of them refuse to start while another of them is running.
decorated(name) ==
  name \in {"getAppConfiguration", "getWalletId", "getWalletPublicKey",
            "signAnnotatedTransaction"}

\* Call c is between its Init frame and its final frame.
midHandshake(c) == runs[c].pc \in {"signInit", "signContinue"}

\* Call c has started and not settled.
running(c) == runs[c].pc \in {"signInit", "signContinue", "signFinal"}

\* Call d holds the lock of the decorated methods: it is running and its
\* method, signMessage, is one of them.
holdsLock(d) == running(d) /\ decorated("signMessage")

\* The decoration refuses a decorated method while another decorated method
\* is running; a method outside the list neither takes the lock nor is held
\* back by it.
refused(c, name) == decorated(name) /\ \E d \in Calls \ {c} : holdsLock(d)

\* Call c hands a frame to the transport and suspends on the promise.
Two_send(c, frame, label, next) ==
  /\ wire' = Append(wire, [call |-> c, frame |-> frame])
  /\ runs' = [runs EXCEPT ![c].pc = label, ![c].i = next,
                          ![c].response = NoResponse]

Two_throw(c, e) ==
  /\ runs' = [runs EXCEPT ![c].pc = "failed", ![c].error = e]
  /\ UNCHANGED wire

Two_resumes(c, label) == runs[c].pc = label /\ runs[c].response.ready

Two_signMessage(c, path, rawMsgHex, displayHex) ==
  /\ runs[c].pc = "idle"
  /\ LET init == rawPath(path, displayHex)
         call == [NoArgs EXCEPT !.path = path, !.rawMsgHex = rawMsgHex,
                                !.displayHex = displayHex]
     IN IF refused(c, "signMessage")
        THEN /\ runs' = [runs EXCEPT ![c].pc = "failed", ![c].args = call,
                                     ![c].error = "TransportLocked"]
             /\ UNCHANGED wire
        ELSE IF init.threw
        THEN /\ runs' = [runs EXCEPT ![c].pc = "failed", ![c].args = call,
                                     ![c].error = init.error]
             /\ UNCHANGED wire
        ELSE /\ wire' = Append(wire, [call |-> c, frame |-> Frame(6, 0, init.value)])
             /\ runs' = [runs EXCEPT ![c].pc = "signInit", ![c].args = call,
                                     ![c].rawMsg = rawMsgOf(rawMsgHex)]
  /\ UNCHANGED << callVars, transport, seqVars >>

\* The loop of call c, entered with index next.
Two_signMessage_loop(c, next) ==
  IF next < txFullChunks(runs[c].rawMsg)
  THEN Two_send(c, Frame(6, 1, chunkData(runs[c].rawMsg, next)), "signContinue", next)
  ELSE Two_send(c, Frame(6, 129, lastData(runs[c].rawMsg)), "signFinal", next)

Two_signMessage_afterInit(c) ==
  /\ Two_resumes(c, "signInit")
  /\ Two_signMessage_loop(c, 0)
  /\ UNCHANGED << callVars, transport, seqVars >>

Two_signMessage_afterChunk(c) ==
  /\ Two_resumes(c, "signContinue")
  /\ Two_signMessage_loop(c, runs[c].i + 1)
  /\ UNCHANGED << callVars, transport, seqVars >>

Two_signMessage_return(c) ==
  /\ Two_resumes(c, "signFinal")
  /\ runs' = [runs EXCEPT ![c].pc = "done",
                          ![c].result = [returned |-> TRUE] @@
                                        [value |-> signature(runs[c].response.data)]]
  /\ UNCHANGED << wire, callVars, transport, seqVars >>

\* The transport settles the send call c is suspended on.
Two_TransportResolve(c, reply) ==
  /\ running(c)
  /\ ~runs[c].response.ready
  /\ runs' = [runs EXCEPT ![c].response = [ready |-> TRUE, data |-> reply]]
  /\ UNCHANGED << wire, callVars, transport, seqVars >>

Two_TransportReject(c, e) ==
  /\ running(c)
  /\ ~runs[c].response.ready
  /\ Two_throw(c, e)
  /\ UNCHANGED << callVars, transport, seqVars >>

NextTwo ==
  \/ \E c \in Calls, path \in TwoPaths, rawMsgHex \in TwoMsgHexes :
       Two_signMessage(c, path, rawMsgHex, FALSE)
  \/ \E c \in Calls : Two_signMessage_afterInit(c)
  \/ \E c \in Calls : Two_signMessage_afterChunk(c)
  \/ \E c \in Calls : Two_signMessage_return(c)
  \/ \E c \in Calls, reply \in TwoReplies : Two_TransportResolve(c, reply)
  \/ \E c \in Calls : Two_TransportReject(c, "TransportStatusError")

SpecTwo == Init /\ [][NextTwo]_vars

\* =================================================================== claims
IsInit(f) == f.cla = 128 /\ f.ins = 6 /\ f.p1 = 0 /\ f.p2 = 0
IsContinue(f) == f.cla = 128 /\ f.ins = 6 /\ f.p1 = 1 /\ f.p2 = 0
IsFinal(f) == f.cla = 128 /\ f.ins = 6 /\ f.p1 = 129 /\ f.p2 = 0

\* signMessage has sent its final frame.
FinalSent == op = "signMessage" /\ Len(sent) >= 2 /\ IsFinal(sent[Len(sent)])

\* The payloads of frames from..Len(frames), concatenated in send order.
RECURSIVE Payloads(_, _)
Payloads(frames, from) ==
  IF from > Len(frames) THEN <<>>
  ELSE frames[from].data \o Payloads(frames, from + 1)

\* C1: the frames of a signMessage call are, in send order, one Init frame,
\* then continue frames carrying the message at offsets 0, 230, 460, ...,
\* then one final frame, which is the last frame and has been sent by the
\* time the call returns; a frame is sent only when no earlier send of the
\* call is still pending, so at most one exchange is in flight.
C1_FrameOrder ==
  op = "signMessage" =>
    /\ inflight <= 1
    /\ (inflight = 1 => ~response.ready)
    /\ \A k \in 1..Len(sent) :
         /\ (k = 1) = IsInit(sent[k])
         /\ k > 1 => IsContinue(sent[k]) \/ IsFinal(sent[k])
         /\ IsFinal(sent[k]) => k = Len(sent)
         /\ IsContinue(sent[k]) =>
              sent[k].data = Slice(rawMsg, (k - 2) * 230, (k - 1) * 230)
    /\ pc = "done" => FinalSent

\* A call of three payload frames has returned.
C1_Witness ==
  /\ op = "signMessage" /\ pc = "done" /\ Len(sent) = 4
  /\ IsInit(sent[1]) /\ IsContinue(sent[2]) /\ IsContinue(sent[3]) /\ IsFinal(sent[4])

\* C2: once the final frame is sent, the payloads of the continue frames and
\* the final frame, concatenated in send order, are the magic-prefixed message
\* byte for byte, and every continue frame carries exactly 230 bytes.
C2_PayloadsReassemble ==
  /\ op = "signMessage" =>
       \A k \in 1..Len(sent) : IsContinue(sent[k]) => Len(sent[k].data) = 230
  /\ FinalSent => Payloads(sent, 2) = magicBytes \o FromHex(args.rawMsgHex)

\* The 500-byte message has gone out in frames of 230, 230 and 55 bytes.
C2_Witness ==
  /\ FinalSent /\ Len(FromHex(args.rawMsgHex)) = 500
  /\ Len(sent) = 4 /\ Len(sent[2].data) = 230 /\ Len(sent[3].data) = 230
  /\ Len(sent[4].data) = 55

\* C3 as stated: the number of payload frames is ceil(max(1, length) / 230).
C3_FrameCountCeil ==
  FinalSent =>
    Len(sent) - 1 = (Max(1, Len(magicBytes \o FromHex(args.rawMsgHex))) + 229) \div 230

\* C3, amended: the number of payload frames is floor(length / 230) + 1, which
\* is ceil(max(1, length) / 230) unless the length is a positive multiple of
\* 230, where the empty final frame makes it one more.
C3_FrameCountFloor ==
  FinalSent =>
    LET length == Len(magicBytes \o FromHex(args.rawMsgHex))
        ceil == (Max(1, length) + 229) \div 230
    IN /\ Len(sent) - 1 = (length \div 230) + 1
       /\ Len(sent) - 1 = IF length % 230 = 0 THEN ceil + 1 ELSE ceil

\* A 460-byte prefixed message has gone out in three payload frames.
C3_Witness ==
  /\ FinalSent /\ pc = "done" /\ Len(magicBytes \o FromHex(args.rawMsgHex)) = 460
  /\ Len(sent) - 1 = 3

\* C4: when the prefixed message length is a positive multiple of 230, the
\* call does not return without having sent the final frame, the final frame
\* is empty, and the frame before it is a continue frame of 230 bytes.
C4_EmptyFinalFrame ==
  (op = "signMessage" /\ Len(rawMsg) > 0 /\ Len(rawMsg) % 230 = 0) =>
    /\ pc = "done" => FinalSent
    /\ FinalSent =>
         /\ sent[Len(sent)].data = <<>>
         /\ IsContinue(sent[Len(sent) - 1])
         /\ Len(sent[Len(sent) - 1].data) = 230

\* A 230-byte prefixed message: Init, one full continue frame, an empty final.
C4_Witness ==
  /\ FinalSent /\ pc = "done" /\ Len(rawMsg) = 230
  /\ Len(sent) = 3 /\ sent[3].data = <<>> /\ Len(sent[2].data) = 230

\* C5: a transport failure on a frame of signMessage ends the call there: the
\* call has failed with exactly the value the transport rejected with, it has
\* no result, nothing of it is pending, and no frame is sent after it.
C5_TransportFailureAborts ==
  /\ []((op = "signMessage" /\ rejected # "") =>
          pc = "failed" /\ error = rejected /\ result = NoResult /\ inflight = 0)
  /\ [][(op = "signMessage" /\ rejected # "") => (sent' = sent \/ pc' = "idle")]_vars

\* The first of two continue frames was rejected: one more continue frame and
\* the final frame stay unsent.
C5_Witness ==
  /\ op = "signMessage" /\ rejected # "" /\ pc = "failed"
  /\ Len(sent) = 2 /\ IsContinue(sent[2]) /\ txFullChunks(rawMsg) = 2

\* The number of frames the protocol of the operation in progress defines.
FramesDefined ==
  CASE op = "getAppConfiguration" -> 2
    [] op \in {"getWalletId", "getWalletPublicKey", "getWalletExtendedPublicKey"} -> 1
    [] op = "signMessageHash" -> 2
    [] op = "signMessage" -> 2 + (Len(magicBytes \o FromHex(args.rawMsgHex)) \div 230)
    [] OTHER -> 0

\* C6: an operation never makes more send calls than its protocol has frames,
\* whether its sends resolve or reject.
C6_NoResend == Len(sent) <= FramesDefined

\* signMessageHash whose second frame was rejected has made two sends.
C6_Witness ==
  /\ op = "signMessageHash" /\ rejected # "" /\ pc = "failed" /\ Len(sent) = 2

PathOps ==
  {"getWalletPublicKey", "getWalletExtendedPublicKey", "signMessage", "signMessageHash"}

\* A path text that parses (every token holds a child index) to at most 255
\* segments.
ValidPathText(path) ==
  /\ \A k \in 1..Len(path) : path[k].digits >= 0
  /\ Len(path) <= 255

\* What the path encoding throws on an invalid path: bip32-path's parse error
\* and the Buffer range error of the one-byte segment count.
MalformedPathError == {"Invalid input", "ERR_OUT_OF_RANGE"}

\* C7: an operation given an invalid path has failed with the path error,
\* with no frame sent and none pending.
C7_InvalidPathSendsNothing ==
  (op \in PathOps /\ ~ValidPathText(args.path)) =>
    /\ pc = "failed"
    /\ error \in MalformedPathError
    /\ sent = <<>>
    /\ inflight = 0
    /\ result = NoResult

\* getWalletPublicKey with a path of 256 segments has failed.
C7_Witness ==
  /\ op = "getWalletPublicKey" /\ Len(args.path) = 256 /\ pc = "failed"
  /\ sent = <<>>

\* The path text a buffer of count byte and big-endian words stands for.
DecodePath(buf) ==
  [k \in 1..((Len(buf) - 1) \div 4) |->
     LET hi == buf[4 * k - 2] * 256 + buf[4 * k - 1]
         lo == buf[4 * k] * 256 + buf[4 * k + 1]
     IN [digits |-> (hi % 32768) * 65536 + lo,
         mark |-> IF hi >= 32768 THEN "'" ELSE ""]]

\* C8: the encoding of a valid path is 1 + 4 * count bytes long, starts with
\* the count, and decodes to the same child indices and hardened markers in
\* the same order.
C8_PathRoundTrip ==
  (op \in PathOps /\ ValidPathText(args.path)) =>
    LET encoded == pathToBuffer(args.path)
    IN /\ ~encoded.threw
       /\ Len(encoded.value) = 1 + 4 * Len(args.path)
       /\ encoded.value[1] = Len(args.path)
       /\ DecodePath(encoded.value) = args.path

\* getWalletPublicKey has sent the encoding of a path of 255 segments.
C8_Witness ==
  /\ op = "getWalletPublicKey" /\ Len(args.path) = 255
  /\ Len(sent) = 1 /\ Len(sent[1].data) = 1021

\* The bytes of a first frame that hold the encoded path.
PathPayload(f) == IF f.ins = 6 THEN Tail(f.data) ELSE f.data

\* C9: every operation given a valid path (0..255 segments) sends its first
\* frame, and the path bytes in it are the path encoder's.
C9_PathEncodingIdentical ==
  (op \in PathOps /\ ValidPathText(args.path)) =>
    /\ Len(sent) >= 1
    /\ PathPayload(sent[1]) = pathToBuffer(args.path).value

\* The reply the operation decoded is shorter than its layout.
ShortReply ==
  LET r == response.data
  IN CASE op = "getAppConfiguration" -> Len(response1) < 3
       [] op = "getWalletId" -> Len(r) < 32
       [] op = "getWalletPublicKey" -> Len(r) < 1 \/ Len(r) < 1 + r[1]
       [] op = "getWalletExtendedPublicKey" ->
            \/ Len(r) < 1
            \/ Len(r) < 2 + r[1]
            \/ Len(r) < 2 + r[1] + r[2 + r[1]]
       [] op \in {"signMessage", "signMessageHash"} -> Len(r) < 65
       [] OTHER -> FALSE

\* C10: an operation that has decoded a reply shorter than its layout has
\* failed with ResponseTooShortError; it has not returned a result.
C10_ShortReplyFails ==
  (pc \in {"done", "failed"} /\ rejected = "" /\ response.ready /\ ShortReply) =>
    pc = "failed" /\ error = "ResponseTooShortError"

\* getWalletPublicKey has resumed on the device's reply and settled.
PublicKeySettled ==
  /\ op = "getWalletPublicKey"
  /\ pc \in {"done", "failed"}
  /\ response.ready

\* C11: a getWalletPublicKey call whose reply carries a public key that is
\* not exactly 65 bytes long fails with InvalidPublicKeyError and returns no
\* publicKey, lockArg or address.
C11_InvalidKeyRejected ==
  (PublicKeySettled /\ Len(publicKeyOf(response.data)) # 65) =>
    /\ pc = "failed"
    /\ error = "InvalidPublicKeyError"
    /\ result = NoResult

\* The previous call was the same call (same operation, same arguments), got
\* the same last reply and returned.
SameCallBefore ==
  /\ previous.op = op
  /\ previous.args = args
  /\ previous.response = response.data
  /\ previous.result.returned

\* The first n bytes of a reply, or all of it when it is shorter.
FirstBytes(reply, n) == SubSeq(reply, 1, IF Len(reply) < n THEN Len(reply) ELSE n)

\* C12: signMessageHash with a valid path sends exactly two frames whatever
\* the digest's length: Init (ins 0x07, P1 0x00, the encoded path), and, only
\* once that frame's reply is in, the final frame (ins 0x07, P1 0x80, the
\* whole digest). The signature is the first 65 bytes of the second reply,
\* the same whatever the first reply was.
C12_HashTwoFrames ==
  (op = "signMessageHash" /\ ValidPathText(args.path)) =>
    LET expected ==
          << Frame(7, 0, pathToBuffer(args.path).value),
             Frame(7, 128, FromHex(args.rawMsgHex)) >>
    IN /\ Len(sent) \in 1..2
       /\ \A k \in 1..Len(sent) : sent[k] = expected[k]
       /\ Len(acks) = Len(sent) - 1
       /\ inflight <= 1
       /\ pc = "done" =>
            /\ Len(sent) = 2
            /\ result.value = ToHex(FirstBytes(response.data, SignatureLength))
            /\ SameCallBefore => result = previous.result

\* A digest longer than one APDU was signed, after the same call had got a
\* different first reply.
C12_Witness ==
  /\ op = "signMessageHash"
  /\ pc = "done"
  /\ Len(FromHex(args.rawMsgHex)) > maxApduSize
  /\ Len(response.data) > SignatureLength
  /\ SameCallBefore
  /\ previous.acks # acks

\* C13: the signature signMessage returns is the first 65 bytes of the reply
\* to the final frame and of no other reply: the replies to the Init and
\* continue frames were all dropped, and the same call made before with other
\* such replies and the same final reply returned the same signature.
C13_SignatureFromFinalReply ==
  (op = "signMessage" /\ pc = "done") =>
    /\ IsFinal(sent[Len(sent)])
    /\ Len(acks) = Len(sent) - 1
    /\ result.value = ToHex(FirstBytes(response.data, SignatureLength))
    /\ SameCallBefore => result = previous.result

\* A message sent with a continue frame was signed, after the same call had
\* got different replies to its Init or continue frame.
C13_Witness ==
  /\ op = "signMessage"
  /\ pc = "done"
  /\ Len(sent) = 3
  /\ SameCallBefore
  /\ previous.acks # acks
  /\ previous.acks[2] # acks[2]

\* C14: getAppConfiguration sends exactly two frames without payload, ins 0x00
\* and, after the first reply, ins 0x09, both with P1 = P2 = 0x00; the version
\* is the first reply's first three bytes joined with dots, and the hash is
\* the second reply without its last 3 bytes (3 characters shorter than it).
\* The replies meant are those that have the bytes named: a first reply of
\* three bytes or more, a second reply of three bytes or more.
C14_AppConfiguration ==
  op = "getAppConfiguration" =>
    LET expected == << Frame(0, 0, <<>>), Frame(9, 0, <<>>) >>
    IN /\ Len(sent) \in 1..2
       /\ \A k \in 1..Len(sent) : sent[k] = expected[k]
       /\ inflight <= 1
       /\ pc = "config1" => Len(sent) = 1
       /\ pc = "done" =>
            /\ Len(sent) = 2
            /\ Len(response1) >= 3 =>
                 result.version =
                   ToString(response1[1]) \o "." \o ToString(response1[2])
                     \o "." \o ToString(response1[3])
            /\ Len(response.data) >= 3 =>
                 /\ Len(result.hash) = Len(response.data) - 3
                 /\ \A k \in 1..Len(result.hash) :
                      result.hash[k].codePoint = response.data[k]

\* A configuration was returned from a full version reply and a hash reply
\* longer than its trailer.
C14_Witness ==
  /\ op = "getAppConfiguration"
  /\ pc = "done"
  /\ Len(response1) >= 3
  /\ Len(response.data) > 3
  /\ Len(result.hash) = Len(response.data) - 3

\* The reply holds the whole layout: L1, L1 key bytes, L2, L2 chain-code bytes.
HoldsExtendedKey(reply) ==
  /\ Len(reply) >= 1
  /\ Len(reply) >= 2 + reply[1]
  /\ Len(reply) >= 2 + reply[1] + reply[2 + reply[1]]

\* C15: getWalletExtendedPublicKey reads its reply by position: with
\* L1 = reply[0] and L2 = reply[1 + L1], the public key returned is the L1
\* bytes at offsets 1..L1 and the chain code the L2 bytes from offset 2 + L1,
\* so neither holds a length byte nor a byte of the other. The replies meant
\* are those that hold the layout.
C15_PositionalDecode ==
  (op = "getWalletExtendedPublicKey" /\ pc = "done"
     /\ HoldsExtendedKey(response.data)) =>
    LET reply == response.data
        L1 == reply[1]
        L2 == reply[2 + L1]
    IN /\ FromHex(result.public_key) = [k \in 1..L1 |-> reply[1 + k]]
       /\ FromHex(result.chain_code) = [k \in 1..L2 |-> reply[2 + L1 + k]]
       /\ Len(result.public_key) = 2 * L1
       /\ Len(result.chain_code) = 2 * L2

\* A reply with a key, a chain code and bytes after them was decoded.
C15_Witness ==
  /\ op = "getWalletExtendedPublicKey"
  /\ pc = "done"
  /\ HoldsExtendedKey(response.data)
  /\ response.data[1] > 0
  /\ response.data[2 + response.data[1]] > 0
  /\ Len(response.data) > 2 + response.data[1] + response.data[2 + response.data[1]]

\* The call before this one was a getWalletPublicKey call that returned, and
\* the device gave it the same public key.
SameKeyBefore ==
  /\ op = "getWalletPublicKey"
  /\ pc = "done"
  /\ previous.op = "getWalletPublicKey"
  /\ previous.result.returned
  /\ publicKeyOf(previous.response) = publicKeyOf(response.data)

\* C16: two getWalletPublicKey calls that get the same public key return the
\* same lockArg, and the same address when the network is the same; when only
\* the network differs the addresses differ in their prefix, "ckb" for the
\* live network and "ckt" for the test network, and in nothing else.
C16_AddressDeterministic ==
  SameKeyBefore =>
    LET before == previous.result
        prefix(testnet) == IF testnet THEN "ckt" ELSE "ckb"
    IN /\ result.publicKey = before.publicKey
       /\ result.lockArg = before.lockArg
       /\ result.address.bech32m = prefix(args.testnet)
       /\ before.address.bech32m = prefix(previous.args.testnet)
       /\ result.address.contents = before.address.contents
       /\ args.testnet = previous.args.testnet => result.address = before.address
       /\ args.testnet # previous.args.testnet => result.address # before.address

\* The same key came in two different replies, once for each network.
C16_Witness ==
  /\ SameKeyBefore
  /\ previous.response # response.data
  /\ previous.args.testnet
  /\ ~args.testnet
  /\ Len(publicKeyOf(response.data)) = 65

\* The Init frame a signMessage call with these arguments sends.
InitFrameOf(call) == Frame(6, 0, rawPath(call.path, call.displayHex).value)

\* C17: signMessage is not guarded against a second signMessage: a call made
\* while another is between its Init and its final frame is not refused, and
\* its Init frame (when its path encodes) goes to the transport at once,
\* behind the frames the other call has sent and before the ones it has yet
\* to send.
C17_NoMutualExclusion ==
  [][\A c \in Calls :
       (/\ runs[c].pc = "idle"
        /\ runs'[c].pc # "idle"
        /\ ~rawPath(runs'[c].args.path, runs'[c].args.displayHex).threw
        /\ \E d \in Calls \ {c} : midHandshake(d))
       => /\ runs'[c].pc = "signInit"
          /\ wire' = Append(wire, [call |-> c, frame |-> InitFrameOf(runs'[c].args)])]_vars

\* The transport was handed a frame of call 2 after the Init frame of call 1
\* and before the final frame of call 1.
C17_Witness ==
  \E a, b, z \in 1..Len(wire) :
    /\ a < b /\ b < z
    /\ wire[a].call = 1 /\ IsInit(wire[a].frame)
    /\ wire[b].call = 2
    /\ wire[z].call = 1 /\ IsFinal(wire[z].frame)

\* C18: a signMessage call that returns for a message of n bytes has made
\* 2 + floor((15 + n) / 230) sends, the last with (15 + n) mod 230 payload
\* bytes (fewer than 230); with n = 0 that is the Init frame and a final frame
\* of 15 bytes, and no continue frame.
C18_SendCount ==
  (op = "signMessage" /\ pc = "done") =>
    LET n == Len(FromHex(args.rawMsgHex))
        final == sent[Len(sent)]
    IN /\ Len(sent) = 2 + ((15 + n) \div 230)
       /\ IsFinal(final)
       /\ Len(final.data) = (15 + n) % 230
       /\ Len(final.data) < 230
       /\ n = 0 =>
            /\ Len(sent) = 2
            /\ Len(final.data) = 15
            /\ \A k \in 1..Len(sent) : ~IsContinue(sent[k])

\* A message that needs two continue frames and a non-empty final frame was
\* signed.
C18_Witness ==
  /\ op = "signMessage"
  /\ pc = "done"
  /\ Len(sent) = 4
  /\ Len(sent[4].data) > 0

\* The first frame of an operation, from its name and arguments alone.
FirstFrame(name, a) ==
  CASE name = "getAppConfiguration" -> Frame(0, 0, <<>>)
    [] name = "getWalletId" -> Frame(1, 0, <<>>)
    [] name = "getWalletPublicKey" -> Frame(2, 0, pathToBuffer(a.path).value)
    [] name = "getWalletExtendedPublicKey" -> Frame(4, 0, extendedKeyData(a.path).value)
    [] name = "signMessage" -> Frame(6, 0, rawPath(a.path, a.displayHex).value)
    [] name = "signMessageHash" -> Frame(7, 0, pathToBuffer(a.path).value)

\* The operation that settled before this one was the same call and got the
\* same replies and the same transport failure, if any.
SameRunBefore ==
  /\ pc \in {"done", "failed"}
  /\ previous.op = op
  /\ previous.args = args
  /\ previous.acks = acks
  /\ previous.response1 = response1
  /\ previous.response = response.data
  /\ previous.rejected = rejected

\* C19: no operation leaves anything in the client for the next one. The
\* transport reference never changes; between operations the client is as it
\* was constructed; an operation that gets past its path has sent the first
\* frame its name and arguments fix; and a call sends the same frames and
\* settles the same way as the same call with the same replies did before,
\* whatever operation had run before either.
C19_NoCarriedState ==
  /\ transport = "transport"
  /\ pc = "idle" =>
       /\ op = "none" /\ args = NoArgs /\ sent = <<>> /\ inflight = 0
       /\ response = NoResponse /\ rejected = "" /\ response1 = <<>>
       /\ rawMsg = <<>> /\ i = 0 /\ result = NoResult /\ error = ""
       /\ acks = <<>>
  /\ (pc # "idle" /\ ~(pc = "failed" /\ rejected = "" /\ ~response.ready)) =>
       /\ Len(sent) >= 1
       /\ sent[1] = FirstFrame(op, args)
  /\ SameRunBefore =>
       /\ sent = previous.sent
       /\ result = previous.result
       /\ error = previous.error

\* A call returned as the same call did just before, and that earlier call had
\* followed a different operation.
C19_Witness ==
  /\ SameRunBefore
  /\ pc = "done"
  /\ Len(sent) >= 2
  /\ previous.after \notin {"none", op}

\* The lowercase hexadecimal digits.
LowerHex ==
  {"0", "1", "2", "3", "4", "5", "6", "7", "8", "9", "a", "b", "c", "d", "e", "f"}

\* C20: for every reply of 32 bytes or more, getWalletId returns 64 lowercase
\* hexadecimal characters that spell the reply's first 32 bytes; the bytes
\* after the 32nd change nothing: the reply with any one of them changed, or
\* cut anywhere after the 32nd, has the same id.
C20_WalletIdFirst32 ==
  (op = "getWalletId" /\ pc = "done" /\ Len(response.data) >= 32) =>
    LET reply == response.data
    IN /\ Len(result.value) = 64
       /\ \A k \in 1..Len(result.value) : result.value[k] \in LowerHex
       /\ FromHex(result.value) = [k \in 1..32 |-> reply[k]]
       /\ \A k \in 33..Len(reply) :
            walletId([reply EXCEPT ![k] = (@ + 1) % 256]) = result.value
       /\ \A n \in 32..Len(reply) : walletId(SubSeq(reply, 1, n)) = result.value

\* An id was returned from a reply longer than 32 bytes.
C20_Witness ==
  /\ op = "getWalletId"
  /\ pc = "done"
  /\ Len(response.data) > 32
  /\ Len(result.value) = 64

====
